---------------------------- MODULE Spec2Model ----------------------------
(***************************************************************************)
(* Circuit breaker of vitorsalgado/nobreak.                                *)
(*                                                                         *)
(* circuit.js keeps two process-wide maps: CircuitInstancesDictionary      *)
(* (key -> the live Circuit object) and CircuitDataDictionary (key -> the  *)
(* stats written by finishWorkflow).  command.js drives them: execute()    *)
(* runs getInstance, registerCall and allowExecution synchronously, calls  *)
(* the action, and the .then / .catch callbacks run later, once the action *)
(* or its timeout has settled.  Node runs each of these pieces to its end  *)
(* before the next one starts, so each piece is one action here, and the   *)
(* pieces of different executions interleave freely.                       *)
(***************************************************************************)
EXTENDS Integers, FiniteSets, Sequences, TLC

(***************************************************************************)
(* Bounds of the model.                                                    *)
(***************************************************************************)
MaxCalls == 3
MaxTime == 3
MaxPending == 2

\* the command keys of the exploration, and the keys of the two counting
\* tests, which are run as written
Keys == {"k1", "k2"}
TestKeys == {"test_2", "test_3"}
AllKeys == Keys \cup TestKeys

\* the thresholds a Command is configured with (command.js:75-99)
VolumeThresholds == {0, 1, 2}
ErrorThresholds == {50, 100}
SleepWindows == {1}

\* the timeout a Command is configured with (command.js:64-67)
Timeouts == {1}

CLOSED == "closed"
OPEN == "open"
HALF_OPEN == "half_open"

VARIABLES
  now,            \* Date.now()
  env,            \* process.env as the per-key settings of config.js read it
  inst,           \* CircuitInstancesDictionary: key -> live Circuit
  data,           \* CircuitDataDictionary: key -> stats of the last finishWorkflow
  created,        \* number of Circuit objects constructed so far (object identity)
  resolved,       \* key -> identities getInstance has returned for it
  commandOpts,    \* key -> this.opts of the Command executed last for it
  pend,           \* key -> executions whose action is still pending
  probes,         \* key -> pending executions that were admitted in HALF_OPEN
  abandoned,      \* key -> actions still running after their timeout fired
  calls,          \* key -> number of execute() calls made
  actionCalls,    \* key -> number of times the action was invoked
  fallbackCalls,  \* key -> number of times the fallback was invoked
  writes,         \* key -> number of CircuitDataDictionary.set calls
  failures,       \* key -> number of failures recorded by the Circuit
  opened,         \* key -> the Circuit has been in a state other than CLOSED
  last            \* what the execute() that settled in the last step did, if one did

vars == <<now, env, inst, data, created, resolved, commandOpts, pend, probes,
          abandoned, calls, actionCalls, fallbackCalls, writes, failures, opened,
          last>>

(***************************************************************************)
(* JavaScript values.  An optional number is a set with at most one        *)
(* element: {} is undefined.                                               *)
(***************************************************************************)
Undefined == {}

Some(v) == {v}

Value(o) == CHOOSE v \in o : TRUE

\* a || b on optional numbers: a when a is truthy (defined and not 0)
OrElse(a, b) == IF a # Undefined /\ Value(a) # 0 THEN a ELSE b

\* Map.prototype.set
MapSet(m, k, v) == [x \in (DOMAIN m) \cup {k} |-> IF x = k THEN v ELSE m[x]]

EmptyMap == [x \in {} |-> 0 = 1]

(***************************************************************************)
(* config.js: the settings of a key, read from the environment.            *)
(***************************************************************************)
forceOpen(commandKey) == env[commandKey].force_open

errorPercentageThreshold(commandKey) == env[commandKey].error_percentage_threshold

requestVolumeThreshold(commandKey) == env[commandKey].request_volume_threshold

sleepWindowInMilliseconds(commandKey) == env[commandKey].sleep_window_milliseconds

timeout(commandKey) == env[commandKey].timeout

(***************************************************************************)
(* circuit.js.  The methods of Circuit are operators from the two maps     *)
(* (a record w with fields inst and data, plus the bookkeeping of object   *)
(* identities, writes and recorded failures) and a key to the maps after   *)
(* the call.                                                               *)
(***************************************************************************)
Circuit(id, commandKey, rvt, ept, sw) ==
  [ id |-> id,
    commandkey |-> commandKey,
    state |-> CLOSED,
    totalCalls |-> 0,
    errorCalls |-> 0,
    requestVolumeThreshold |-> OrElse(requestVolumeThreshold(commandKey), rvt),
    errorThreshold |-> OrElse(errorPercentageThreshold(commandKey), ept),
    sleepWindowInMilliseconds |-> OrElse(sleepWindowInMilliseconds(commandKey), sw),
    ongoingSleepWindow |-> Undefined,
    forceOpen |-> forceOpen(commandKey) ]

\* the expiry test with <= for <
isSleepWindowOver_orEqual(circuit) ==
  LET val == circuit.ongoingSleepWindow
  IN  val # Undefined /\ Value(val) # 0 /\ Value(val) <= now

\* !!(val && new Date(val) < new Date())
isSleepWindowOver(circuit) ==
  LET val == circuit.ongoingSleepWindow
  IN  val # Undefined /\ Value(val) # 0 /\ Value(val) < now

reloadStats(w, k) ==
  IF k \notin DOMAIN w.data
  THEN w
  ELSE LET stats == w.data[k]
           c1 == [w.inst[k] EXCEPT !.totalCalls = stats.totalCalls,
                                   !.errorCalls = stats.errorCalls]
           c2 == IF isSleepWindowOver(c1)
                 THEN [c1 EXCEPT !.ongoingSleepWindow = Undefined,
                                 !.state = HALF_OPEN]
                 ELSE [c1 EXCEPT !.state = stats.state,
                                 !.ongoingSleepWindow = stats.ongoingSleepWindow]
       IN  [w EXCEPT !.inst = MapSet(w.inst, k, c2)]

\* a lookup that constructs a Circuit every time
getInstance_alwaysNew(w, k, rvt, ept, sw) ==
  [w EXCEPT !.inst = MapSet(w.inst, k, Circuit(w.created + 1, k, rvt, ept, sw)),
            !.created = w.created + 1]

getInstance(w, k, rvt, ept, sw) ==
  IF k \in DOMAIN w.inst
  THEN reloadStats(w, k)
  ELSE [w EXCEPT !.inst = MapSet(w.inst, k, Circuit(w.created + 1, k, rvt, ept, sw)),
                 !.created = w.created + 1]

\* the gate without the forceOpen test
allowExecution_unforced(c) == c.state = CLOSED \/ c.state = HALF_OPEN

allowExecution(c) == ~c.forceOpen /\ (c.state = CLOSED \/ c.state = HALF_OPEN)

isHalfOpen(c) == c.state = HALF_OPEN

\* the call that is not counted
registerCall_uncounted(w, k) == w

registerCall(w, k) ==
  [w EXCEPT !.inst = MapSet(w.inst, k,
                            [w.inst[k] EXCEPT !.totalCalls = w.inst[k].totalCalls + 1])]

finishWorkflow(w, k) ==
  LET c == w.inst[k]
      opts == [ totalCalls |-> c.totalCalls,
                errorCalls |-> c.errorCalls,
                ongoingSleepWindow |-> c.ongoingSleepWindow,
                state |-> c.state ]
  IN  [w EXCEPT !.data = MapSet(w.data, k, opts),
                !.writes = [w.writes EXCEPT ![k] = w.writes[k] + 1]]

\* the percentage check with > for >=
errorPercentageReached_strict(c) ==
  IF c.errorThreshold = Undefined
  THEN FALSE
  ELSE IF c.totalCalls = 0
       THEN TRUE
       ELSE c.errorCalls * 100 > Value(c.errorThreshold) * c.totalCalls

\* errorCalls / totalCalls * 100 >= errorThreshold, in IEEE doubles: x / 0 is
\* Infinity for x > 0; elsewhere the comparison of the doubles agrees with
\* the exact one for every totalCalls <= 200 and every threshold used here.
errorPercentageReached(c) ==
  IF c.errorThreshold = Undefined
  THEN FALSE
  ELSE IF c.totalCalls = 0
       THEN TRUE
       ELSE c.errorCalls * 100 >= Value(c.errorThreshold) * c.totalCalls

\* the volume check with > for >=
shouldCheckHealth_strict(c) ==
  c.requestVolumeThreshold # Undefined /\ c.totalCalls > Value(c.requestVolumeThreshold)

shouldCheckHealth(c) ==
  c.requestVolumeThreshold # Undefined /\ c.totalCalls >= Value(c.requestVolumeThreshold)

\* the circuit opened without an expiry
registerErrorAndCalculateMetrics_noExpiry(w, k) ==
  LET c1 == [w.inst[k] EXCEPT !.errorCalls = w.inst[k].errorCalls + 1]
      c2 == IF shouldCheckHealth(c1) /\ errorPercentageReached(c1)
            THEN [c1 EXCEPT !.state = OPEN]
            ELSE c1
  IN  finishWorkflow([w EXCEPT !.inst = MapSet(w.inst, k, c2),
                               !.failures = [w.failures EXCEPT ![k] = w.failures[k] + 1]],
                     k)

registerErrorAndCalculateMetrics(w, k) ==
  LET c1 == [w.inst[k] EXCEPT !.errorCalls = w.inst[k].errorCalls + 1]
      c2 == IF shouldCheckHealth(c1) /\ errorPercentageReached(c1)
            THEN [c1 EXCEPT !.state = OPEN,
                            !.ongoingSleepWindow =
                               IF c1.sleepWindowInMilliseconds = Undefined
                               THEN Undefined
                               ELSE Some(now + Value(c1.sleepWindowInMilliseconds))]
            ELSE c1
  IN  finishWorkflow([w EXCEPT !.inst = MapSet(w.inst, k, c2),
                               !.failures = [w.failures EXCEPT ![k] = w.failures[k] + 1]],
                     k)

\* the reset that forgets errorCalls
markSuccess_keepErrors(w, k) ==
  [w EXCEPT !.inst = MapSet(w.inst, k,
                            [w.inst[k] EXCEPT !.state = CLOSED,
                                              !.totalCalls = 0])]

markSuccess(w, k) ==
  [w EXCEPT !.inst = MapSet(w.inst, k,
                            [w.inst[k] EXCEPT !.state = CLOSED,
                                              !.totalCalls = 0,
                                              !.errorCalls = 0])]


(***************************************************************************)
(* command.js.  Errors are records: their type, the command key a          *)
(* CircuitOpenException carries, and the type of the error they wrap.      *)
(***************************************************************************)
Null == [type |-> "null", commandKey |-> "", cause |-> ""]

ActionError == [type |-> "Error", commandKey |-> "", cause |-> ""]

TimeoutError == [type |-> "TimeoutError", commandKey |-> "", cause |-> ""]

\* Boom.gatewayTimeout(null, exception)
gatewayTimeout(e) == [type |-> "GatewayTimeout", commandKey |-> "", cause |-> e.type]

CircuitOpenException(commandKey) ==
  [type |-> "CircuitOpenException", commandKey |-> commandKey, cause |-> ""]

\* what a function of the user throws
Thrown == [type |-> "Thrown", commandKey |-> "", cause |-> ""]

\* the errorHandler, errorFilter and fallback a Command may be given: none, or
\* a handler that returns a new error, a filter that answers true or false,
\* a fallback that resolves, or any of them throwing
ErrorHandlers == {"none", "substitute", "throws"}
ErrorFilters == {"none", "true", "false", "throws"}
Fallbacks == {"none", "resolves", "throws"}

\* this.opts.errorHandler(err): a handler that returns a new error, or the
\* error a throwing handler throws
errorHandler(h, e) ==
  IF h = "substitute"
  THEN [type |-> "HandlerError", commandKey |-> "", cause |-> e.type]
  ELSE IF h = "throws" THEN Thrown ELSE e

\* this.opts.errorFilter(exception, ...params)
errorFilter(f, e) == f = "true"

Resolved(v) == [kind |-> "resolved", value |-> v, error |-> Null]

Rejected(e) == [kind |-> "rejected", value |-> "", error |-> e]

\* command.opts.fallback(err, ...params): the promise of the fallback, or the
\* rejection its throwing ends in
fallback(fb) == IF fb = "throws" THEN Rejected(Thrown) ELSE Resolved("FALLBACK")

\* without a fallback, the circuit-open error whatever err is
resumeWithFallback_openAlways(err, fb, commandKey) ==
  IF fb # "none"
  THEN [ result |-> fallback(fb),
         fallback |-> fb,
         fallbackInvoked |-> TRUE,
         fallbackArg |-> err ]
  ELSE [ result |-> Rejected(CircuitOpenException(commandKey)),
         fallback |-> fb,
         fallbackInvoked |-> FALSE,
         fallbackArg |-> Null ]

\* the fallback called only when there is an error
resumeWithFallback_onErrorOnly(err, fb, commandKey) ==
  IF fb # "none" /\ err # Null
  THEN [ result |-> fallback(fb),
         fallback |-> fb,
         fallbackInvoked |-> TRUE,
         fallbackArg |-> err ]
  ELSE [ result |-> Rejected(IF err # Null THEN err ELSE CircuitOpenException(commandKey)),
         fallback |-> fb,
         fallbackInvoked |-> FALSE,
         fallbackArg |-> Null ]

\* what the caller of execute() gets, and whether the fallback ran and with what
resumeWithFallback(err, fb, commandKey) ==
  IF fb # "none"
  THEN [ result |-> fallback(fb),
         fallback |-> fb,
         fallbackInvoked |-> TRUE,
         fallbackArg |-> err ]
  ELSE [ result |-> Rejected(IF err # Null THEN err ELSE CircuitOpenException(commandKey)),
         fallback |-> fb,
         fallbackInvoked |-> FALSE,
         fallbackArg |-> Null ]

\* Command.prototype.timeout: the timeout of the Command
Command_timeout(commandKey, to) == OrElse(timeout(commandKey), to)

\* this.opts of a Command built with timeout(to), requestVolumeThreshold(rvt),
\* errorThresholdPercentage(ept) and sleepWindowInMilliseconds(sw);
\* suppliedTimeout remembers to
Command(commandKey, to, rvt, ept, sw) ==
  [ timeout |-> Command_timeout(commandKey, to),
    suppliedTimeout |-> to,
    requestVolumeThreshold |-> rvt,
    errorThreshold |-> ept,
    sleepWindowInMillis |-> sw ]

\* the paths of execute() that end without resumeWithFallback
Returned(result) ==
  [result |-> result, fallback |-> "unread", fallbackInvoked |-> FALSE, fallbackArg |-> Null]

World ==
  [ inst |-> inst, data |-> data, created |-> created, writes |-> writes,
    failures |-> failures ]

Store(w) ==
  /\ inst' = w.inst
  /\ data' = w.data
  /\ created' = w.created
  /\ writes' = w.writes
  /\ failures' = w.failures
  /\ opened' = [k \in AllKeys |->
                  opened[k] \/ (k \in DOMAIN w.inst /\ w.inst[k].state # CLOSED)]

Inc(f, k) == [f EXCEPT ![k] = f[k] + 1]

Dec(f, k) == [f EXCEPT ![k] = f[k] - 1]

\* what an execute() that has settled did: the path it took, the error of the
\* action (err), the error after the mapping and the handler (exception), what
\* the handler and the fallback were called with, and what the caller got
Observation(k, path, err, exception, handlerArg, r) ==
  [ key |-> k,
    path |-> path,
    err |-> err,
    exception |-> exception,
    handlerArg |-> handlerArg,
    result |-> r.result,
    fallback |-> r.fallback,
    fallbackInvoked |-> r.fallbackInvoked,
    fallbackArg |-> r.fallbackArg ]

\* no Command was executed for the key yet
NoCommand ==
  [ timeout |-> Undefined,
    suppliedTimeout |-> Undefined,
    requestVolumeThreshold |-> Undefined,
    errorThreshold |-> Undefined,
    sleepWindowInMillis |-> Undefined ]

NoObservation == Observation("", "none", Null, Null, Null, Returned(Resolved("")))

\* the filtered branch recording the failure all the same
onFilteredError_recorded(w, k) == registerErrorAndCalculateMetrics(w, k)

\* command.js:188-191, the branch of a filtered error: commit, nothing recorded
onFilteredError(w, k) == finishWorkflow(w, k)

\* command.js:168-174, the .then callback on the circuit
onSuccess(w, k) ==
  finishWorkflow(IF isHalfOpen(w.inst[k]) THEN markSuccess(w, k) ELSE w, k)

\* the late result of the action taken as a success of the execute()
onLateSettle_recorded(w, k) == onSuccess(w, k)

\* the action of an execute() whose timeout has fired settles: the promise
\* of the action has no callback of execute() left on it
onLateSettle(w, k) == w

\* Command.prototype.execute up to the point where it returns: the lookup, the
\* call registration, the gate, and either the invocation of the action (which
\* is then pending) or the commit and the fallback resolution.
execute(k, to, rvt, ept, sw, fb) ==
  LET w1 == getInstance(World, k, rvt, ept, sw)
      w2 == registerCall(w1, k)
  IN  /\ calls' = Inc(calls, k)
      /\ commandOpts' = [commandOpts EXCEPT ![k] = Command(k, to, rvt, ept, sw)]
      /\ resolved' = [resolved EXCEPT ![k] = resolved[k] \cup {w1.inst[k].id}]
      /\ IF allowExecution(w2.inst[k])
         THEN /\ Store(w2)
              /\ actionCalls' = Inc(actionCalls, k)
              /\ pend' = Inc(pend, k)
              /\ probes' = IF isHalfOpen(w2.inst[k]) THEN Inc(probes, k) ELSE probes
              /\ last' = NoObservation
              /\ UNCHANGED fallbackCalls
         ELSE LET r == resumeWithFallback(Null, fb, k)
              IN  /\ Store(finishWorkflow(w2, k))
                  /\ fallbackCalls' = IF r.fallbackInvoked THEN Inc(fallbackCalls, k)
                                      ELSE fallbackCalls
                  /\ last' = Observation(k, "rejected", Null, Null, Null, r)
                  /\ UNCHANGED <<actionCalls, pend, probes>>
      /\ UNCHANGED <<now, env, abandoned>>

\* one of the pending executions of k settles: one admitted in HALF_OPEN,
\* or one of the others
Settle(k) ==
  /\ pend[k] > 0
  /\ pend' = Dec(pend, k)
  /\ \/ probes[k] > 0 /\ probes' = Dec(probes, k)
     \/ probes[k] < pend[k] /\ probes' = probes

\* the .then callback of execute(): the action resolved before the timeout
thenCallback(k) ==
  /\ Settle(k)
  /\ Store(onSuccess(World, k))
  /\ last' = Observation(k, "success", Null, Null, Null, Returned(Resolved("RESULT")))
  /\ UNCHANGED <<now, env, resolved, commandOpts, abandoned, calls, actionCalls,
                 fallbackCalls>>

\* the .catch callback of execute(): the action rejected with err, or the
\* timeout fired first and err is a Promise.TimeoutError
catchCallback(k, err, h, f, fb) ==
  /\ Settle(k)
  /\ LET e1 == IF err = TimeoutError THEN gatewayTimeout(err) ELSE err
         exception == IF h # "none" THEN errorHandler(h, err) ELSE e1
         handlerArg == IF h # "none" THEN err ELSE Null
     IN  IF h = "throws" \/ f = "throws"
         THEN \* the handler or the filter throws out of the callback
              /\ Store(World)
              /\ last' = Observation(k, "threw", err, exception, handlerArg,
                                     Returned(Rejected(Thrown)))
              /\ UNCHANGED fallbackCalls
         ELSE IF f # "none" /\ errorFilter(f, exception)
         THEN /\ Store(onFilteredError(World, k))
              /\ last' = Observation(k, "filtered", err, exception, handlerArg,
                                     Returned(Rejected(exception)))
              /\ UNCHANGED fallbackCalls
         ELSE LET r == resumeWithFallback(exception, fb, k)
              IN  /\ Store(registerErrorAndCalculateMetrics(World, k))
                  /\ fallbackCalls' = IF r.fallbackInvoked THEN Inc(fallbackCalls, k)
                                      ELSE fallbackCalls
                  /\ last' = Observation(k, "failed", err, exception, handlerArg, r)
  /\ abandoned' = IF err = TimeoutError THEN Inc(abandoned, k) ELSE abandoned
  /\ UNCHANGED <<now, env, resolved, commandOpts, calls, actionCalls>>

\* the action of an execute() that has timed out resolves or rejects
lateSettle(k) ==
  /\ abandoned[k] > 0
  /\ abandoned' = Dec(abandoned, k)
  /\ Store(onLateSettle(World, k))
  /\ last' = Observation(k, "late", Null, Null, Null, Returned(Resolved("")))
  /\ UNCHANGED <<now, env, resolved, commandOpts, pend, probes, calls, actionCalls,
                 fallbackCalls>>

\* some Circuit, or its stats, holds the expiry of a sleep window
SleepWindowRuns ==
  \/ \E k \in DOMAIN inst : inst[k].ongoingSleepWindow # Undefined
  \/ \E k \in DOMAIN data : data[k].ongoingSleepWindow # Undefined

\* time passes.  The code reads the clock only to set an expiry and to
\* compare with one, so the time that passes before the first sleep window
\* starts is left out.
Tick ==
  /\ now < MaxTime
  /\ SleepWindowRuns
  /\ now' = now + 1
  /\ last' = NoObservation
  /\ UNCHANGED <<env, inst, data, created, resolved, commandOpts, pend, probes,
                 abandoned, calls, actionCalls, fallbackCalls, writes, failures,
                 opened>>

(***************************************************************************)
(* The two counting tests of the test file, as written: one Command, run   *)
(* in a loop that awaits each execute(); no time passes that matters.      *)
(***************************************************************************)
LONG_SLEEP_WINDOW == 24 * 60 * 60 * 1000

Test2RequestVolumeThreshold == 80
Test2ErrorThresholdPercentage == 50
Test2Iterations == 100

Test3RequestVolumeThreshold == 0
Test3ErrorThresholdPercentage == 10
Test3Iterations == 110
Test3FailFrom == 90

\* 'should wait request threshold to check circuit overall health'
Test2Execute ==
  /\ calls["test_2"] < Test2Iterations
  /\ pend["test_2"] = 0
  /\ execute("test_2", Undefined, Some(Test2RequestVolumeThreshold),
             Some(Test2ErrorThresholdPercentage), Some(LONG_SLEEP_WINDOW), "resolves")

\* its action always rejects
Test2Settle == catchCallback("test_2", ActionError, "none", "none", "resolves")

\* 'should resume with fallback when circuit is open'; the sleep window is
\* the default of the configuration
Test3Execute ==
  /\ calls["test_3"] < Test3Iterations
  /\ pend["test_3"] = 0
  /\ \E sw \in SleepWindows :
       execute("test_3", Undefined, Some(Test3RequestVolumeThreshold),
               Some(Test3ErrorThresholdPercentage), Some(sw), "resolves")

\* its action rejects once val >= 90, where val counts the executes done
Test3Settle ==
  IF calls["test_3"] - 1 >= Test3FailFrom
  THEN catchCallback("test_3", ActionError, "none", "none", "resolves")
  ELSE thenCallback("test_3")

(***************************************************************************)
(* Specifications.                                                         *)
(***************************************************************************)
NoOverrides(force) ==
  [ force_open |-> force,
    error_percentage_threshold |-> Undefined,
    request_volume_threshold |-> Undefined,
    sleep_window_milliseconds |-> Undefined,
    timeout |-> Undefined ]

InitState ==
  /\ now = 1
  /\ inst = EmptyMap
  /\ data = EmptyMap
  /\ created = 0
  /\ resolved = [k \in AllKeys |-> {}]
  /\ commandOpts = [k \in AllKeys |-> NoCommand]
  /\ pend = [k \in AllKeys |-> 0]
  /\ probes = [k \in AllKeys |-> 0]
  /\ abandoned = [k \in AllKeys |-> 0]
  /\ calls = [k \in AllKeys |-> 0]
  /\ actionCalls = [k \in AllKeys |-> 0]
  /\ fallbackCalls = [k \in AllKeys |-> 0]
  /\ writes = [k \in AllKeys |-> 0]
  /\ failures = [k \in AllKeys |-> 0]
  /\ opened = [k \in AllKeys |-> FALSE]
  /\ last = NoObservation

\* the environment forces the circuit of k2 open (app_circuit_k2_force_open,
\* as the last test does for its key) and overrides nothing else
Init ==
  /\ InitState
  /\ env = [k \in AllKeys |-> NoOverrides(k = "k2")]

Errors == {ActionError, TimeoutError}

\* the thresholds the Commands are configured with: <<requestVolumeThreshold,
\* errorThresholdPercentage, sleepWindowInMilliseconds>>
Thresholds == VolumeThresholds \X ErrorThresholds \X SleepWindows

\* a Circuit that is forced open never reads its thresholds: the Commands of
\* its key are given one choice of them
ThresholdsOf(k) ==
  IF env[k].force_open THEN {<<1, 50, 1>>} ELSE Thresholds

\* getInstance reads the thresholds only when it constructs the Circuit, so
\* the Commands of a key are taken to repeat the thresholds of its first one
Configured(k, t) ==
  calls[k] > 0 =>
    /\ commandOpts[k].requestVolumeThreshold = Some(t[1])
    /\ commandOpts[k].errorThreshold = Some(t[2])
    /\ commandOpts[k].sleepWindowInMillis = Some(t[3])

RECURSIVE Sum(_, _)
Sum(f, S) == IF S = {} THEN 0 ELSE LET x == CHOOSE y \in S : TRUE IN f[x] + Sum(f, S \ {x})

\* the number of execute() calls made so far, which bounds the model
TotalCalls == Sum(calls, Keys)

\* no execute() was made for any key of S
Unused(S) == \A k \in S : calls[k] = 0

\* executions of a key may overlap: execute() may be called while earlier
\* actions of the key are pending
Next ==
  \/ \E k \in Keys : \E to \in Timeouts, t \in ThresholdsOf(k), fb \in Fallbacks :
       /\ TotalCalls < MaxCalls
       /\ Configured(k, t)
       /\ pend[k] < MaxPending
       /\ execute(k, Some(to), Some(t[1]), Some(t[2]), Some(t[3]), fb)
  \/ \E k \in Keys : thenCallback(k)
  \/ \E k \in Keys, err \in Errors, h \in ErrorHandlers, f \in ErrorFilters,
        fb \in Fallbacks :
       catchCallback(k, err, h, f, fb)
  \/ \E k \in Keys : lateSettle(k)
  \/ Tick

Spec == Init /\ [][Next]_vars

\* executions of a key run one after another: execute() is called only when
\* no action of the key is pending.  Either the keys of Keys are explored, or
\* one of the two tests is run.
NextSeq ==
  \/ \E k \in Keys : \E to \in Timeouts, t \in ThresholdsOf(k), fb \in Fallbacks :
       /\ Unused(TestKeys)
       /\ TotalCalls < MaxCalls
       /\ Configured(k, t)
       /\ pend[k] = 0
       /\ execute(k, Some(to), Some(t[1]), Some(t[2]), Some(t[3]), fb)
  \/ \E k \in Keys : thenCallback(k)
  \/ \E k \in Keys, err \in Errors, h \in ErrorHandlers, f \in ErrorFilters,
        fb \in Fallbacks :
       catchCallback(k, err, h, f, fb)
  \/ \E k \in Keys : lateSettle(k)
  \/ Unused(TestKeys) /\ Tick
  \/ Unused(AllKeys \ {"test_2"}) /\ Test2Execute
  \/ Test2Settle
  \/ Unused(AllKeys \ {"test_3"}) /\ Test3Execute
  \/ Test3Settle

SpecSeq == Init /\ [][NextSeq]_vars

\* the numbers the environment may hold for a setting of a key
OverrideValues == {0, 2}

\* the settings of a key with at most one of them overridden
Overrides ==
  {NoOverrides(FALSE)}
  \cup {[NoOverrides(FALSE) EXCEPT !.error_percentage_threshold = Some(v)] : v \in OverrideValues}
  \cup {[NoOverrides(FALSE) EXCEPT !.request_volume_threshold = Some(v)] : v \in OverrideValues}
  \cup {[NoOverrides(FALSE) EXCEPT !.sleep_window_milliseconds = Some(v)] : v \in OverrideValues}
  \cup {[NoOverrides(FALSE) EXCEPT !.timeout = Some(v)] : v \in OverrideValues}

\* the environment overrides a setting of k1, or none
InitEnv ==
  /\ InitState
  /\ \E o \in Overrides :
       env = [k \in AllKeys |-> IF k = "k1" THEN o ELSE NoOverrides(k = "k2")]

\* executions one after another, under an environment with overrides
SpecEnv == InitEnv /\ [][NextSeq]_vars

\* the executions of one key that opens at its first failure, overlapping:
\* more calls than Spec has, of one Command with a fallback and no handlers
MaxProbeCalls == 4

ProbeThresholds == {<<1, 100, 1>>}

NextProbe ==
  \/ \E to \in Timeouts, t \in ProbeThresholds :
       /\ calls["k1"] < MaxProbeCalls
       /\ pend["k1"] < MaxPending
       /\ execute("k1", Some(to), Some(t[1]), Some(t[2]), Some(t[3]), "resolves")
  \/ thenCallback("k1")
  \/ \E err \in Errors : catchCallback("k1", err, "none", "none", "resolves")
  \/ lateSettle("k1")
  \/ Tick

SpecProbe == Init /\ [][NextProbe]_vars


(***************************************************************************)
(* Steps, as the claims speak of them.                                     *)
(***************************************************************************)
\* an execute() for k is called (and returns: admitted, or rejected and settled)
ExecuteStep(k) == calls'[k] = calls[k] + 1

AdmittedStep(k) == ExecuteStep(k) /\ pend'[k] = pend[k] + 1

RejectedStep(k) == ExecuteStep(k) /\ pend'[k] = pend[k]

\* the pending action of an execute() for k settles and its callback runs
SettleStep(k) == pend'[k] = pend[k] - 1

SuccessStep(k) == SettleStep(k) /\ last'.path = "success"

FilteredStep(k) == SettleStep(k) /\ last'.path = "filtered"

FailedStep(k) == SettleStep(k) /\ last'.path = "failed"

Stats(c) ==
  [ totalCalls |-> c.totalCalls, errorCalls |-> c.errorCalls,
    ongoingSleepWindow |-> c.ongoingSleepWindow, state |-> c.state ]

\* now > ongoingSleepWindowExpiry
Elapsed(c) == c.ongoingSleepWindow # Undefined /\ now > Value(c.ongoingSleepWindow)

\* the circuit of k is committed: the stats of k are those of the live Circuit
Committed(k) == k \in DOMAIN data /\ data[k] = Stats(inst[k])

(***************************************************************************)
(* C1.  A fresh key, requestVolumeThreshold = N >= 1, errorThreshold <=    *)
(* 100, forceOpen false, executions one after another whose action has     *)
(* failed (unfiltered) every time so far: an execute() made while the      *)
(* sleep window has not elapsed invokes the action iff it is one of the    *)
(* first N calls, the failure of a call before the Nth leaves the circuit  *)
(* CLOSED, and the Nth failure moves it from CLOSED to OPEN.               *)
(***************************************************************************)
\* every action invoked for k so far has failed and was recorded, none pending
AlwaysFailed(k) ==
  k \in DOMAIN inst =>
    /\ pend[k] = 0
    /\ inst[k].errorCalls = actionCalls[k]
    /\ inst[k].totalCalls = calls[k]

\* the sleep window of k, if one is running, has not elapsed
NotElapsed(k) ==
  k \in DOMAIN inst => inst[k].state # HALF_OPEN /\ ~Elapsed(inst[k])

C1_Step(k) ==
  LET N == Value(inst'[k].requestVolumeThreshold)
  IN  /\ (/\ ExecuteStep(k)
          /\ ~inst'[k].forceOpen
          /\ N >= 1
          /\ AlwaysFailed(k)
          /\ NotElapsed(k))
         => (AdmittedStep(k) <=> calls'[k] <= N)
      /\ (/\ FailedStep(k)
          /\ N >= 1
          /\ pend[k] = 1
          /\ inst[k].errorCalls = actionCalls[k] - 1
          /\ inst[k].totalCalls = calls[k]
          /\ inst[k].state = CLOSED)
         => /\ calls[k] < N => inst'[k].state = CLOSED
            /\ calls[k] = N => inst'[k].state = OPEN
            /\ calls[k] <= N

\* C1: with an always-failing action, exactly the first N calls are admitted
\* and the Nth failure opens the circuit
C1_FirstNCallsThenOpen == [][\A k \in AllKeys : C1_Step(k)]_vars

\* k1 with N = 2: two calls failed, the circuit is OPEN and the third call
\* was rejected at the gate
C1_Witness ==
  /\ "k1" \in DOMAIN inst
  /\ inst["k1"].requestVolumeThreshold = Some(2)
  /\ inst["k1"].state = OPEN
  /\ calls["k1"] = 3
  /\ actionCalls["k1"] = 2
  /\ inst["k1"].errorCalls = 2
  /\ last.key = "k1"
  /\ last.path = "rejected"

(***************************************************************************)
(* C2.  errorCalls <= totalCalls in every Circuit and in its stats, in     *)
(* every reachable state, overlapping executions included.                 *)
(***************************************************************************)
\* C2: errorCalls <= totalCalls, in the Circuits and in the stats
C2_ErrorsWithinTotal ==
  /\ \A k \in DOMAIN inst : inst[k].errorCalls <= inst[k].totalCalls
  /\ \A k \in DOMAIN data : data[k].errorCalls <= data[k].totalCalls

(***************************************************************************)
(* C3.  An execute() for a key whose circuit is OPEN: if the sleep window  *)
(* has elapsed (now > expiry) the lookup leaves the circuit HALF_OPEN with *)
(* the expiry cleared and the action is invoked, once, as the probe; if it *)
(* has not, the circuit stays OPEN with its expiry and the call is         *)
(* rejected at the gate.                                                   *)
(***************************************************************************)
C3_Step(k) ==
  (ExecuteStep(k) /\ k \in DOMAIN inst /\ inst[k].state = OPEN) =>
    IF Elapsed(inst[k])
    THEN /\ inst'[k].state = HALF_OPEN
         /\ inst'[k].ongoingSleepWindow = Undefined
         /\ AdmittedStep(k)
         /\ actionCalls'[k] = actionCalls[k] + 1
    ELSE /\ inst'[k].state = OPEN
         /\ inst'[k].ongoingSleepWindow = inst[k].ongoingSleepWindow
         /\ RejectedStep(k)
         /\ actionCalls'[k] = actionCalls[k]

\* C3: an OPEN circuit becomes HALF_OPEN, and probes, at the first execute()
\* after its expiry and not before
C3_ProbeAfterSleepWindow == [][\A k \in AllKeys : C3_Step(k)]_vars

\* the probe is pending: the circuit went OPEN, its window elapsed, and the
\* next execute() found it HALF_OPEN and invoked the action
C3_Witness ==
  /\ "k1" \in DOMAIN data
  /\ data["k1"].state = OPEN
  /\ Elapsed(data["k1"])
  /\ inst["k1"].state = HALF_OPEN
  /\ inst["k1"].ongoingSleepWindow = Undefined
  /\ pend["k1"] = 1
  /\ actionCalls["k1"] = 2

(***************************************************************************)
(* C4.  Executions of a key one at a time: when an admitted action         *)
(* succeeds while the circuit is HALF_OPEN, the circuit is CLOSED with     *)
(* totalCalls = 0 and errorCalls = 0 afterwards and the stats hold that;   *)
(* when it succeeds while the circuit is CLOSED, the state and the         *)
(* counters stay as the call left them when it was admitted, and the       *)
(* stats hold that.                                                        *)
(***************************************************************************)
C4_Step(k) ==
  SuccessStep(k) =>
    /\ inst[k].state = HALF_OPEN =>
         /\ inst'[k].state = CLOSED
         /\ inst'[k].totalCalls = 0
         /\ inst'[k].errorCalls = 0
    /\ inst[k].state = CLOSED => inst'[k] = inst[k]
    /\ inst[k].state \in {CLOSED, HALF_OPEN}
    /\ data'[k] = Stats(inst'[k])

\* C4: a success in HALF_OPEN closes and resets, a success in CLOSED changes
\* nothing
C4_SuccessClosesProbe == [][\A k \in AllKeys : C4_Step(k)]_vars

\* the probe of k1 has just succeeded: the circuit had been OPEN with errors
\* counted, and is CLOSED with zeroed counters in the Circuit and in the stats
C4_Witness ==
  /\ last.key = "k1"
  /\ last.path = "success"
  /\ calls["k1"] = 2
  /\ actionCalls["k1"] = 2
  /\ writes["k1"] = 2
  /\ inst["k1"].state = CLOSED
  /\ inst["k1"].totalCalls = 0
  /\ data["k1"].totalCalls = 0
  /\ data["k1"].state = CLOSED

(***************************************************************************)
(* C5.  A circuit whose forceOpen is true admits no execute(): its action  *)
(* is never invoked and none is pending, whatever its counters and the     *)
(* time; and forceOpen stays what the environment said when the Circuit    *)
(* was constructed: no step changes it.                                    *)
(***************************************************************************)
C5_State ==
  \A k \in DOMAIN inst :
    /\ inst[k].forceOpen = env[k].force_open
    /\ inst[k].forceOpen => (actionCalls[k] = 0 /\ pend[k] = 0)

C5_Step(k) ==
  /\ k \in DOMAIN inst => inst'[k].forceOpen = inst[k].forceOpen
  /\ (ExecuteStep(k) /\ inst'[k].forceOpen) =>
       /\ RejectedStep(k)
       /\ actionCalls'[k] = actionCalls[k]
       /\ last'.path = "rejected"
       /\ last'.key = k

\* C5: forceOpen rejects every call and is never changed
C5_ForceOpenRejects == [](C5_State) /\ [][\A k \in AllKeys : C5_Step(k)]_vars

\* k2, forced open, has been called twice, the second time at a later time,
\* and was rejected each time
C5_Witness ==
  /\ "k2" \in DOMAIN inst
  /\ inst["k2"].forceOpen
  /\ inst["k2"].totalCalls = 2
  /\ calls["k2"] = 2
  /\ now > 1
  /\ last.key = "k2"
  /\ last.path = "rejected"
  /\ actionCalls["k2"] = 0

(***************************************************************************)
(* C6.  When the action of an admitted call fails and the errorFilter      *)
(* answers true for the error (the action's, mapped if it is a timeout, or *)
(* the one the errorHandler returned), execute() is rejected with that     *)
(* error, the fallback is not invoked, the failure changes neither         *)
(* errorCalls nor the state (nor anything else of the Circuit), and the    *)
(* Circuit is committed once.                                              *)
(***************************************************************************)
C6_Step(k) ==
  FilteredStep(k) =>
    /\ last'.key = k
    /\ last'.exception # Null
    /\ last'.handlerArg = Null =>
         last'.exception = (IF last'.err = TimeoutError
                            THEN gatewayTimeout(TimeoutError) ELSE last'.err)
    /\ last'.result = [kind |-> "rejected", value |-> "", error |-> last'.exception]
    /\ ~last'.fallbackInvoked
    /\ fallbackCalls' = fallbackCalls
    /\ inst'[k].errorCalls = inst[k].errorCalls
    /\ inst'[k].state = inst[k].state
    /\ inst' = inst
    /\ data'[k] = Stats(inst[k])
    /\ writes'[k] = writes[k] + 1

\* C6: a filtered error reaches the caller, with no fallback and no failure
\* recorded, and the circuit is committed
C6_FilteredErrorPassesThrough == [][\A k \in AllKeys : C6_Step(k)]_vars

\* the first call of k1 failed, its handler substituted the error and the
\* filter let it through: no error is counted and the stats are written
C6_Witness ==
  /\ last.key = "k1"
  /\ last.path = "filtered"
  /\ last.exception.type = "HandlerError"
  /\ last.result.error.type = "HandlerError"
  /\ inst["k1"].totalCalls = 1
  /\ inst["k1"].errorCalls = 0
  /\ Committed("k1")
  /\ writes["k1"] = 1

(***************************************************************************)
(* C7.  Without a fallback, an execute() whose admitted action fails       *)
(* (unfiltered) is rejected with the error of the failure, which without   *)
(* an errorHandler is the action's own error unchanged; and an execute()   *)
(* that is not admitted (state OPEN, or forceOpen) is rejected with a      *)
(* CircuitOpenException carrying the command key.                          *)
(***************************************************************************)
C7_Step(k) ==
  /\ (FailedStep(k) /\ last'.fallback = "none") =>
       /\ last'.result.kind = "rejected"
       /\ last'.result.error = last'.exception
       /\ (last'.handlerArg = Null /\ last'.err = ActionError) =>
            last'.result.error = ActionError
  /\ (RejectedStep(k) /\ last'.fallback = "none") =>
       /\ inst'[k].state = OPEN \/ inst'[k].forceOpen
       /\ last'.result.kind = "rejected"
       /\ last'.result.error.type = "CircuitOpenException"
       /\ last'.result.error.commandKey = k

\* C7: without a fallback the caller gets the error, or a
\* CircuitOpenException with the key
C7_NoFallbackRejects == [][\A k \in AllKeys : C7_Step(k)]_vars

\* k1 without fallback: its action failed with its own error and the caller
\* got that error
C7_Witness ==
  /\ last.key = "k1"
  /\ last.path = "failed"
  /\ last.fallback = "none"
  /\ last.handlerArg = Null
  /\ last.err = ActionError
  /\ last.result.kind = "rejected"
  /\ last.result.error = ActionError

(***************************************************************************)
(* C8.  The registry holds a Circuit for a key exactly when execute() was  *)
(* called for the key, every lookup for the key has returned that one      *)
(* Circuit object, and as many Circuits were constructed as there are keys *)
(* in the registry: none is replaced or removed.                           *)
(***************************************************************************)
\* C8: one Circuit per key, created at the first execute(), never replaced
C8_OneCircuitPerKey ==
  /\ \A k \in AllKeys :
       /\ k \in DOMAIN inst <=> calls[k] > 0
       /\ k \in DOMAIN inst => resolved[k] = {inst[k].id}
       /\ k \notin DOMAIN inst => resolved[k] = {}
  /\ created = Cardinality(DOMAIN inst)
  /\ \A j, k \in DOMAIN inst : j # k => inst[j].id # inst[k].id

\* two Commands' worth of execute() for k1 and one for k2: two Circuits
C8_Witness ==
  /\ calls["k1"] = 2
  /\ calls["k2"] = 1
  /\ created = 2
  /\ Cardinality(resolved["k1"]) = 1

(***************************************************************************)
(* C9.  Executions one at a time: the unfiltered failure of an admitted    *)
(* call raises errorCalls by one and, with totalCalls already raised by    *)
(* the call, moves the circuit to OPEN with expiry now + sleepWindow       *)
(* exactly when totalCalls >= requestVolumeThreshold and                   *)
(* errorCalls / totalCalls * 100 >= errorThreshold; otherwise state and    *)
(* expiry stay.  And the test with threshold 0, percentage 10 and an       *)
(* action failing from the 91st execute on invokes, in 110 executes, the   *)
(* action 100 times and the fallback 20 times.                             *)
(***************************************************************************)
C9_Step(k) ==
  FailedStep(k) =>
    LET c == inst[k]
        e == c.errorCalls + 1
        t == c.totalCalls
        met == /\ t >= Value(c.requestVolumeThreshold)
               /\ e * 100 >= Value(c.errorThreshold) * t
    IN  /\ t >= 1
        /\ inst'[k].errorCalls = e
        /\ inst'[k].totalCalls = t
        /\ inst'[k].state = OPEN <=> met
        /\ IF met
           THEN inst'[k].ongoingSleepWindow =
                  Some(now + Value(c.sleepWindowInMilliseconds))
           ELSE /\ inst'[k].state = c.state
                /\ inst'[k].ongoingSleepWindow = c.ongoingSleepWindow

C9_Test3 ==
  (calls["test_3"] = Test3Iterations /\ pend["test_3"] = 0) =>
    (actionCalls["test_3"] = 100 /\ fallbackCalls["test_3"] = 20)

C10_Step(k) ==
  /\ (RejectedStep(k) /\ last'.fallback # "none") =>
       /\ fallbackCalls'[k] = fallbackCalls[k] + 1
       /\ last'.fallbackArg = Null
  /\ (FailedStep(k) /\ last'.fallback # "none") =>
       /\ fallbackCalls'[k] = fallbackCalls[k] + 1
       /\ last'.fallbackArg = last'.exception
       /\ last'.exception # Null
  /\ (AdmittedStep(k) \/ SuccessStep(k) \/ FilteredStep(k)) =>
       fallbackCalls'[k] = fallbackCalls[k]

C10_Test2 ==
  (calls["test_2"] = Test2Iterations /\ pend["test_2"] = 0) =>
    (actionCalls["test_2"] = 80 /\ fallbackCalls["test_2"] = 100)

\* C10: the fallback runs once per rejected or failed execute() and not
\* otherwise; the 100-execute test counts 80 action and 100 fallback invocations
C10_FallbackOncePerFailure == [](C10_Test2) /\ [][\A k \in AllKeys : C10_Step(k)]_vars

\* the test has run its 100 executes: 80 failures, then 20 rejections
C10_Witness ==
  /\ calls["test_2"] = Test2Iterations
  /\ pend["test_2"] = 0
  /\ actionCalls["test_2"] = 80
  /\ fallbackCalls["test_2"] = 100
  /\ last.path = "rejected"
  /\ last.fallbackInvoked

(***************************************************************************)
(* C11.  Every execute() writes the stats of its key exactly once: when it *)
(* is rejected at the gate, and when its action has settled, whether it    *)
(* succeeded, failed or timed out, was filtered or not, and whatever the   *)
(* errorHandler, the errorFilter and the fallback did.  So the writes of a *)
(* key are the execute() calls of the key that have settled.               *)
(***************************************************************************)
\* C11: one write of the stats per execute() that has settled
C11_OneWritePerExecute == \A k \in AllKeys : writes[k] = calls[k] - pend[k]


(***************************************************************************)
(* C12.  Every execute() raises totalCalls by exactly one over what its    *)
(* lookup loaded, before the gate; and an execute() rejected at the gate   *)
(* (state OPEN, or forceOpen) commits stats that are the stats committed   *)
(* before it (those of a new Circuit when none were) with totalCalls one   *)
(* higher: errorCalls, state and ongoingSleepWindow are the same.          *)
(***************************************************************************)
\* the stats committed for k, those of a new Circuit before the first commit
CommittedStats(k) ==
  IF k \in DOMAIN data
  THEN data[k]
  ELSE [totalCalls |-> 0, errorCalls |-> 0, ongoingSleepWindow |-> Undefined,
        state |-> CLOSED]

\* the totalCalls the lookup of an execute() for k ends with
LoadedTotalCalls(k) ==
  IF k \in DOMAIN data THEN data[k].totalCalls
  ELSE IF k \in DOMAIN inst THEN inst[k].totalCalls ELSE 0

C12_Step(k) ==
  /\ ExecuteStep(k) => inst'[k].totalCalls = LoadedTotalCalls(k) + 1
  /\ RejectedStep(k) =>
       /\ inst'[k].state = OPEN \/ inst'[k].forceOpen
       /\ data'[k].totalCalls = CommittedStats(k).totalCalls + 1
       /\ data'[k].errorCalls = CommittedStats(k).errorCalls
       /\ data'[k].state = CommittedStats(k).state
       /\ data'[k].ongoingSleepWindow = CommittedStats(k).ongoingSleepWindow

\* C12: every execute() counts one call before the gate, and a rejected one
\* commits that increment and nothing else
C12_RejectedCallIsCounted == [][\A k \in AllKeys : C12_Step(k)]_vars

\* the circuit of k1 is OPEN after one failure and its second call has just
\* been rejected: two calls and one error are committed, the expiry is kept
C12_Witness ==
  /\ last.key = "k1"
  /\ last.path = "rejected"
  /\ calls["k1"] = 2
  /\ actionCalls["k1"] = 1
  /\ data["k1"].state = OPEN
  /\ data["k1"].totalCalls = 2
  /\ data["k1"].errorCalls = 1
  /\ data["k1"].ongoingSleepWindow # Undefined
  /\ writes["k1"] = 2


(***************************************************************************)
(* C13.  Whenever the environment holds a number for a key's timeout,      *)
(* requestVolumeThreshold, errorThresholdPercentage or sleepWindow (0      *)
(* included), the Command and the Circuit of the key use that number;      *)
(* they use the number the caller supplied only when the environment holds *)
(* none.                                                                   *)
(***************************************************************************)
\* the override o when there is one, else the supplied value v
OverrideOr(o, v) == IF o # Undefined THEN o ELSE v

\* C13: an override, whatever its value, wins over the supplied value
C13_OverridesWin ==
  \A k \in AllKeys :
    calls[k] > 0 =>
      /\ commandOpts[k].timeout =
           OverrideOr(env[k].timeout, commandOpts[k].suppliedTimeout)
      /\ inst[k].requestVolumeThreshold =
           OverrideOr(env[k].request_volume_threshold,
                      commandOpts[k].requestVolumeThreshold)
      /\ inst[k].errorThreshold =
           OverrideOr(env[k].error_percentage_threshold, commandOpts[k].errorThreshold)
      /\ inst[k].sleepWindowInMilliseconds =
           OverrideOr(env[k].sleep_window_milliseconds,
                      commandOpts[k].sleepWindowInMillis)


(***************************************************************************)
(* C14.  When the timeout fires before the action settles, the             *)
(* TimeoutError is mapped to a gateway-timeout error before any function   *)
(* of the user sees it: an errorHandler is called with the mapped error,   *)
(* never with the TimeoutError itself, and without an errorHandler the     *)
(* errorFilter and the fallback get the mapped error.                      *)
(***************************************************************************)
C14_Step(k) ==
  (SettleStep(k) /\ last'.err = TimeoutError) =>
    /\ last'.handlerArg # Null => last'.handlerArg = gatewayTimeout(TimeoutError)
    /\ last'.handlerArg = Null => last'.exception = gatewayTimeout(TimeoutError)
    /\ (last'.handlerArg = Null /\ last'.fallbackInvoked) =>
         last'.fallbackArg = gatewayTimeout(TimeoutError)

\* C14: after a timeout the errorHandler, or without one the errorFilter and
\* the fallback, get the gateway-timeout error
C14_TimeoutIsMappedFirst == [][\A k \in AllKeys : C14_Step(k)]_vars


(***************************************************************************)
(* C15.  Executions one at a time: when the call admitted while the        *)
(* circuit is HALF_OPEN fails (unfiltered), the circuit is OPEN after it,  *)
(* whatever totalCalls and errorCalls are, the calls rejected while OPEN   *)
(* included in totalCalls.                                                 *)
(***************************************************************************)
C15_Step(k) ==
  (FailedStep(k) /\ inst[k].state = HALF_OPEN) => inst'[k].state = OPEN

\* C15: a failed probe reopens the circuit
C15_FailedProbeReopens == [][\A k \in AllKeys : C15_Step(k)]_vars


(***************************************************************************)
(* C16.  In any interleaving of the execute() calls of a key, the state of *)
(* its Circuit changes only in these ways: CLOSED or HALF_OPEN to OPEN, by *)
(* a recorded failure that meets the threshold check; OPEN to HALF_OPEN,   *)
(* by a lookup after the expiry has passed; HALF_OPEN to CLOSED, by the    *)
(* success of an admitted call.  So no lookup takes HALF_OPEN back to      *)
(* OPEN, and OPEN never becomes CLOSED directly.                           *)
(***************************************************************************)
\* the failure being recorded for k meets the threshold check
ThresholdMet(k) ==
  LET c == inst[k]
  IN  /\ c.totalCalls >= Value(c.requestVolumeThreshold)
      /\ \/ c.totalCalls = 0
         \/ (c.errorCalls + 1) * 100 >= Value(c.errorThreshold) * c.totalCalls

C16_Step(k) ==
  (k \in DOMAIN inst /\ inst'[k].state # inst[k].state) =>
    \/ /\ inst[k].state \in {CLOSED, HALF_OPEN}
       /\ inst'[k].state = OPEN
       /\ FailedStep(k)
       /\ ThresholdMet(k)
    \/ /\ inst[k].state = OPEN
       /\ inst'[k].state = HALF_OPEN
       /\ ExecuteStep(k)
       /\ Elapsed(inst[k])
    \/ /\ inst[k].state = HALF_OPEN
       /\ inst'[k].state = CLOSED
       /\ SuccessStep(k)

\* C16: the state changes only by the three triggers
C16_OnlyDefinedTransitions == [][\A k \in AllKeys : C16_Step(k)]_vars


(***************************************************************************)
(* C17.  After the sleep window of an OPEN circuit has elapsed at most one *)
(* probe is allowed: while the action of a call admitted in HALF_OPEN is   *)
(* pending, no other execute() for the key is admitted, however many       *)
(* executions overlap.                                                     *)
(***************************************************************************)
C17_Step(k) == AdmittedStep(k) => probes[k] = 0

\* C17: no execute() is admitted while a probe is pending
C17_OneProbeAtATime == [][\A k \in AllKeys : C17_Step(k)]_vars


(***************************************************************************)
(* C18.  When the action of a probe (a call admitted in HALF_OPEN)         *)
(* succeeds, the circuit is closed: the stats committed by it hold state   *)
(* CLOSED and totalCalls = errorCalls = 0, also when other execute() calls *)
(* for the key have started and finished while the probe was pending.      *)
(***************************************************************************)
\* the step settles a probe of k
ProbeSettles(k) == SettleStep(k) /\ probes'[k] = probes[k] - 1

C18_Step(k) ==
  (SuccessStep(k) /\ ProbeSettles(k)) =>
    /\ data'[k].state = CLOSED
    /\ data'[k].totalCalls = 0
    /\ data'[k].errorCalls = 0

\* C18: a probe that succeeds closes the circuit and resets its counters
C18_ProbeSuccessCloses == [][\A k \in AllKeys : C18_Step(k)]_vars


(***************************************************************************)
(* C19.  No call is lost from the counters when executions of a key        *)
(* overlap: when the circuit has stayed CLOSED and every execute() made    *)
(* for the key has settled, the committed totalCalls is the number of      *)
(* those calls and the committed errorCalls the number of them that failed *)
(* unfiltered.                                                             *)
(***************************************************************************)
\* C19: with the circuit CLOSED all along and nothing pending, the stats
\* count every call and every recorded failure
C19_NoLostCalls ==
  \A k \in AllKeys :
    (calls[k] > 0 /\ pend[k] = 0 /\ ~opened[k]) =>
      /\ k \in DOMAIN data
      /\ data[k].totalCalls = calls[k]
      /\ data[k].errorCalls = failures[k]


(***************************************************************************)
(* C20.  When the timeout fires before the action settles, the execute()   *)
(* is settled by the timeout: unless the error is filtered or a handler    *)
(* throws, one failure is recorded, the stats are written once and the     *)
(* fallback is resolved with the error of the timeout (the caller is       *)
(* rejected with it when there is no fallback).  When the abandoned action *)
(* resolves or rejects later, nothing changes: no counter, no state, no    *)
(* stats, no fallback call, and no caller gets a result.                   *)
(***************************************************************************)
\* the abandoned action of an execute() for k settles
LateStep(k) == abandoned'[k] = abandoned[k] - 1

C20_Step(k) ==
  /\ (FailedStep(k) /\ last'.err = TimeoutError) =>
       /\ abandoned'[k] = abandoned[k] + 1
       /\ failures'[k] = failures[k] + 1
       /\ inst'[k].errorCalls = inst[k].errorCalls + 1
       /\ writes'[k] = writes[k] + 1
       /\ data'[k] = Stats(inst'[k])
       /\ last'.exception # Null
       /\ last'.fallback # "none" =>
            /\ fallbackCalls'[k] = fallbackCalls[k] + 1
            /\ last'.fallbackArg = last'.exception
       /\ last'.fallback = "none" =>
            last'.result = [kind |-> "rejected", value |-> "", error |-> last'.exception]
  /\ LateStep(k) =>
       /\ inst' = inst
       /\ data' = data
       /\ writes' = writes
       /\ failures' = failures
       /\ created' = created
       /\ pend' = pend
       /\ probes' = probes
       /\ calls' = calls
       /\ actionCalls' = actionCalls
       /\ fallbackCalls' = fallbackCalls
       /\ last'.path = "late"
       /\ ~last'.fallbackInvoked

C21_State ==
  /\ \A k \in DOMAIN inst :
       inst[k].state = OPEN =>
         /\ inst[k].ongoingSleepWindow # Undefined
         /\ k \in DOMAIN data
         /\ data[k].ongoingSleepWindow = inst[k].ongoingSleepWindow
  /\ \A k \in DOMAIN data :
       data[k].state = OPEN => data[k].ongoingSleepWindow # Undefined

C21_Step(k) ==
  (/\ ExecuteStep(k)
   /\ k \in DOMAIN inst
   /\ inst[k].state = OPEN
   /\ ~inst[k].forceOpen
   /\ now > Value(data[k].ongoingSleepWindow)) =>
    /\ AdmittedStep(k)
    /\ actionCalls'[k] = actionCalls[k] + 1
    /\ probes'[k] = probes[k] + 1

\* C21: OPEN always comes with an expiry, and the first execute() after it
\* has passed is admitted
C21_OpenHasExpiry == [](C21_State) /\ [][\A k \in AllKeys : C21_Step(k)]_vars

\* k1 opened with an expiry and, the expiry passed, its next call was
\* admitted while an earlier call of the key was still pending
C21_Witness ==
  /\ opened["k1"]
  /\ data["k1"].state = OPEN
  /\ data["k1"].ongoingSleepWindow # Undefined
  /\ now > Value(data["k1"].ongoingSleepWindow)
  /\ inst["k1"].state = HALF_OPEN
  /\ probes["k1"] = 1
  /\ pend["k1"] = 2
  /\ failures["k1"] = 1


=============================================================================
